---- MODULE Spec2Model ----
(***************************************************************************)
(* Model of package iic (src/iic.go): WriteIIC, GenerateIIC, parse and the *)
(* attributeOfElement / mapElement / mapAttrib helpers.                    *)
(*                                                                         *)
(* Strings are sequences of tokens: a token is one character ("a", "|")    *)
(* or an atomic piece of a literal ("Seller", "can't find element ").      *)
(* Concatenation of strings is \o, the empty string is << >>.              *)
(* Byte slices are sequences of numbers in 0..255.                         *)
(***************************************************************************)
EXTENDS Integers, Sequences, FiniteSets, TLC

VARIABLES
    pc,            \* position of WriteIIC
    inFile,        \* the document stored at params.InFile
    outFile,       \* what is stored at params.OutFile
    doc,           \* the etree document held by WriteIIC
    k,             \* parse: index of the next locator to look up
    fields,        \* parse: the values found so far (TIN, IssueDateTime, ...)
    examined,      \* history: the locators parse has looked up, in order
    parsed,        \* return value of parse: [val, err]
    params,        \* GenerateIIC: the [7]string argument
    gpc,           \* position of GenerateIIC
    deferred,      \* GenerateIIC: stack of deferred calls
    plainIIC,      \* GenerateIIC: local plainIIC
    sha256IIC,     \* GenerateIIC: local sha256IIC
    IICSignature,  \* GenerateIIC: local IICSignature (bytes)
    ret,           \* return value of GenerateIIC: [IIC, IICSignature, err]
    sessionOpen,   \* the signer: is a session open
    events,        \* history: calls made on the signer, in order
    signedArgs,    \* history: the digests handed to SignPKCS1v15
    err            \* return value of WriteIIC

vars == <<pc, inFile, outFile, doc, k, fields, examined, parsed, params, gpc,
          deferred, plainIIC, sha256IIC, IICSignature, ret, sessionOpen,
          events, signedArgs, err>>

wvars == <<pc, inFile, outFile, doc, k, fields, examined, parsed, err>>

-----------------------------------------------------------------------------
(* Bounds and input sets *)

MaxSigLen == 1

NumFields == 7

\* bytes a signature is made of: one below 16 (needs a leading zero in hex)
Bytes == {10, 255}

\* attribute values of the documents read by WriteIIC
DocValueSeq == << << >>, <<"a", "|", " ">> >>

\* field values handed to GenerateIIC when it is called directly
FieldValues == { <<"a">>, <<"a", "a">>, <<"a", "|", "a">> }

OldValue == <<"o", "l", "d">>

Range(s) == {s[i] : i \in DOMAIN s}

RECURSIVE SeqsUpTo(_, _)
SeqsUpTo(S, n) ==
    IF n = 0 THEN {<< >>}
    ELSE LET shorter == SeqsUpTo(S, n - 1)
         IN  shorter \cup {Append(s, x) : s \in shorter, x \in S}

Signatures == SeqsUpTo(Bytes, MaxSigLen)

-----------------------------------------------------------------------------
(* Errors and formatting *)

Nil == [isNil |-> TRUE, msg |-> << >>]

\* fmt.Sprintf over a tokenised format: a verb token is replaced by the next
\* argument, every other token is copied.
RECURSIVE Sprintf(_, _)
Sprintf(format, args) ==
    IF format = << >> THEN << >>
    ELSE IF Head(format) \in {"%v", "%s"}
         THEN Head(args) \o Sprintf(Tail(format), Tail(args))
         ELSE <<Head(format)>> \o Sprintf(Tail(format), args)

Errorf(format, args) == [isNil |-> FALSE, msg |-> Sprintf(format, args)]

\* errors that come from outside the package, opaque
ReadError        == [isNil |-> FALSE, msg |-> <<"ReadFromFile failed">>]
WriteError       == [isNil |-> FALSE, msg |-> <<"WriteToFile failed">>]
SessionInitError == [isNil |-> FALSE, msg |-> <<"Initialize failed">>]
SigningError     == [isNil |-> FALSE, msg |-> <<"SignPKCS1v15 failed">>]
HashError        == [isNil |-> FALSE, msg |-> <<"hasher.Write failed">>]

HexDigit == <<"0", "1", "2", "3", "4", "5", "6", "7", "8", "9",
              "a", "b", "c", "d", "e", "f">>

\* fmt.Sprintf("%x", b) for a byte slice: two lowercase digits per byte
RECURSIVE Hex(_)
Hex(b) ==
    IF b = << >> THEN << >>
    ELSE <<HexDigit[(Head(b) \div 16) + 1], HexDigit[(Head(b) % 16) + 1]>>
         \o Hex(Tail(b))

\* hasher.Sum(nil) after hasher.Write(data): the digest, kept symbolic
Sum(hash, data) == [hash |-> hash, data |-> data]

NoDigest == [hash |-> "none", data |-> << >>]

\* fmt.Sprintf("%x", digest) of a symbolic digest: the name of the hash
\* followed by the hex of what was hashed stands for the digest's hex digits
HexOfSum(d) == <<d.hash>> \o Hex(d.data)

-----------------------------------------------------------------------------
(* Documents: the elements in document order, each a tag and attributes *)

EmptyDoc == [Child |-> << >>, Indented |-> FALSE, RootTail |-> << >>]

NoFile == [state |-> "absent", doc |-> EmptyDoc]

\* etree Document.FindElement for a path "//Tag": index of the first element
\* in document order with that tag, 0 for nil
FindElement(path, d) ==
    LET hits == {i \in DOMAIN d.Child : d.Child[i].Tag = Tail(path)}
    IN  IF path # << >> /\ Head(path) = "//" /\ hits # {}
        THEN CHOOSE i \in hits : \A j \in hits : i <= j
        ELSE 0

\* etree Element.SelectAttr: index of the first attribute with the key, 0 for nil
SelectAttr(attrs, key) ==
    LET hits == {i \in DOMAIN attrs : attrs[i].Key = key}
    IN  IF hits # {} THEN CHOOSE i \in hits : \A j \in hits : i <= j ELSE 0

\* etree Element.RemoveAttr: removes the first attribute with the key
RemoveAttr(attrs, key) ==
    LET i == SelectAttr(attrs, key)
    IN  IF i = 0 THEN attrs
        ELSE SubSeq(attrs, 1, i - 1) \o SubSeq(attrs, i + 1, Len(attrs))

\* etree Element.CreateAttr: sets the value of the attribute with the key if
\* there is one, appends a new attribute otherwise
CreateAttr(attrs, key, value) ==
    LET i == SelectAttr(attrs, key)
    IN  IF i = 0 THEN Append(attrs, [Key |-> key, Value |-> value])
        ELSE [attrs EXCEPT ![i].Value = value]

-----------------------------------------------------------------------------
(* Field extraction *)

mapAttrib(attrName, elem) ==
    LET a == SelectAttr(elem.Attr, attrName)
    IN  IF a = 0
        THEN [val |-> << >>,
              err |-> Errorf(<<"can't find attribute ", "%s">>, <<attrName>>)]
        ELSE [val |-> elem.Attr[a].Value, err |-> Nil]

\* mapElement without the nil check: a missing element yields no error
mapElement_noNilCheck(elemName, d, attrName) ==
    LET e == FindElement(elemName, d)
    IN  IF e = 0
        THEN [val |-> << >>, err |-> Nil]
        ELSE mapAttrib(attrName, d.Child[e])

mapElement(elemName, d, attrName) ==
    LET e == FindElement(elemName, d)
    IN  IF e = 0
        THEN [val |-> << >>,
              err |-> Errorf(<<"can't find element ", "%s">>, <<elemName>>)]
        ELSE mapAttrib(attrName, d.Child[e])

attributeOfElement(elemName, attrName, d) == mapElement(elemName, d, attrName)

\* the lookups with InvOrdNum looked up before IssueDateTime
Locators_swapped == <<
    [elem |-> <<"//", "Seller">>,  attr |-> <<"IDNum">>],
    [elem |-> <<"//", "Invoice">>, attr |-> <<"InvOrdNum">>],
    [elem |-> <<"//", "Invoice">>, attr |-> <<"IssueDateTime">>],
    [elem |-> <<"//", "Invoice">>, attr |-> <<"BusinUnitCode">>],
    [elem |-> <<"//", "Invoice">>, attr |-> <<"TCRCode">>],
    [elem |-> <<"//", "Invoice">>, attr |-> <<"SoftCode">>],
    [elem |-> <<"//", "Invoice">>, attr |-> <<"TotPrice">>] >>

\* the lookups of parse, in the order of its statements
Locators == <<
    [elem |-> <<"//", "Seller">>,  attr |-> <<"IDNum">>],
    [elem |-> <<"//", "Invoice">>, attr |-> <<"IssueDateTime">>],
    [elem |-> <<"//", "Invoice">>, attr |-> <<"InvOrdNum">>],
    [elem |-> <<"//", "Invoice">>, attr |-> <<"BusinUnitCode">>],
    [elem |-> <<"//", "Invoice">>, attr |-> <<"TCRCode">>],
    [elem |-> <<"//", "Invoice">>, attr |-> <<"SoftCode">>],
    [elem |-> <<"//", "Invoice">>, attr |-> <<"TotPrice">>] >>

\* [7]string{}
ZeroTuple == [i \in 1..NumFields |-> << >>]


-----------------------------------------------------------------------------
(* The documents WriteIIC is run on.  etree builds the attributes of an    *)
(* element it reads with the same replace-or-append rule as CreateAttr, so *)
(* no element of a loaded document has two attributes with one key.        *)

AttrOpt(key, c) ==
    IF c = 0 THEN << >> ELSE <<[Key |-> key, Value |-> DocValueSeq[c]]>>

OldOpt(key, present) ==
    IF present THEN <<[Key |-> <<key>>, Value |-> OldValue]>> ELSE << >>

\* an Invoice element: an earlier IIC first, the six fields (each absent or
\* one of DocValueSeq), an earlier IICSignature last
InvoiceAttrs(f, old) ==
    OldOpt("IIC", "IIC" \in old)
    \o AttrOpt(Locators[2].attr, f[2]) \o AttrOpt(Locators[3].attr, f[3])
    \o AttrOpt(Locators[4].attr, f[4]) \o AttrOpt(Locators[5].attr, f[5])
    \o AttrOpt(Locators[6].attr, f[6]) \o AttrOpt(Locators[7].attr, f[7])
    \o OldOpt("IICSignature", "IICSignature" \in old)

SellerChoices ==
    {<< >>} \cup
    {<<[Tag |-> <<"Seller">>, Attr |-> AttrOpt(Locators[1].attr, c)]>> :
        c \in 0..Len(DocValueSeq)}

InvoiceChoices ==
    {<< >>} \cup
    {<<[Tag |-> <<"Invoice">>, Attr |-> InvoiceAttrs(f, old)]>> :
        f \in [2..NumFields -> 0..Len(DocValueSeq)],
        old \in SUBSET {"IIC", "IICSignature"}}

Docs ==
    {[Child |-> s \o i, Indented |-> FALSE, RootTail |-> <<"\n">>] :
        s \in SellerChoices, i \in InvoiceChoices}

-----------------------------------------------------------------------------
(* WriteIIC *)

\* lines 21-24: doc.ReadFromFile fails
W_ReadFromFile_err ==
    /\ pc = "ReadFromFile"
    /\ err' = ReadError
    /\ pc' = "done"
    /\ UNCHANGED <<inFile, outFile, doc, k, fields, examined, parsed, params,
                   gpc, deferred, plainIIC, sha256IIC, IICSignature, ret,
                   sessionOpen, events, signedArgs>>

\* lines 21-24: doc.ReadFromFile succeeds
W_ReadFromFile_ok ==
    /\ pc = "ReadFromFile"
    /\ inFile.state = "written"
    /\ doc' = inFile.doc
    /\ pc' = "parse"
    /\ UNCHANGED <<inFile, outFile, k, fields, examined, parsed, params,
                   gpc, deferred, plainIIC, sha256IIC, IICSignature, ret,
                   sessionOpen, events, signedArgs, err>>

\* parse, lines 99-128: the k-th attributeOfElement call and its err check
parse_step ==
    /\ pc = "parse"
    /\ LET loc == Locators[k]
           r   == attributeOfElement(loc.elem, loc.attr, doc)
       IN  /\ examined' = Append(examined, loc)
           /\ IF ~r.err.isNil
              THEN /\ parsed' = [val |-> ZeroTuple, err |-> r.err]
                   /\ pc' = "parsed"
                   /\ UNCHANGED <<k, fields>>
              ELSE /\ fields' = Append(fields, r.val)
                   /\ IF k = NumFields
                      THEN /\ parsed' = [val |-> fields', err |-> Nil]
                           /\ pc' = "parsed"
                           /\ k' = k
                      ELSE /\ k' = k + 1
                           /\ UNCHANGED <<parsed, pc>>
    /\ UNCHANGED <<inFile, outFile, doc, params, gpc, deferred, plainIIC,
                   sha256IIC, IICSignature, ret, sessionOpen, events,
                   signedArgs, err>>

\* lines 27-30: parse returned an error
W_parse_err ==
    /\ pc = "parsed"
    /\ ~parsed.err.isNil
    /\ err' = parsed.err
    /\ pc' = "done"
    /\ UNCHANGED <<inFile, outFile, doc, k, fields, examined, parsed, params,
                   gpc, deferred, plainIIC, sha256IIC, IICSignature, ret,
                   sessionOpen, events, signedArgs>>

\* lines 27-33: parse succeeded, GenerateIIC is called with its result
W_call_GenerateIIC ==
    /\ pc = "parsed"
    /\ parsed.err.isNil
    /\ params' = parsed.val
    /\ gpc' = "Initialize"
    /\ pc' = "GenerateIIC"
    /\ UNCHANGED <<inFile, outFile, doc, k, fields, examined, parsed,
                   deferred, plainIIC, sha256IIC, IICSignature, ret,
                   sessionOpen, events, signedArgs, err>>

\* the err check after GenerateIIC without its return: the (empty) results
\* are embedded and written although GenerateIIC failed
W_GenerateIIC_err_noReturn ==
    /\ pc = "GenerateIIC"
    /\ gpc = "returned"
    /\ ~ret.err.isNil
    /\ LET i == FindElement(<<"//", "Invoice">>, doc)
       IN  doc' = [doc EXCEPT
                     !.Child[i].Attr =
                        CreateAttr(CreateAttr(@, <<"IIC">>, ret.IIC),
                                   <<"IICSignature">>, ret.IICSignature),
                     !.Indented = TRUE]
    /\ outFile' = [state |-> "written", doc |-> doc']
    /\ err' = Nil
    /\ pc' = "done"
    /\ UNCHANGED <<inFile, k, fields, examined, parsed, params,
                   gpc, deferred, plainIIC, sha256IIC, IICSignature, ret,
                   sessionOpen, events, signedArgs>>

\* lines 33-36: GenerateIIC returned an error
W_GenerateIIC_err ==
    /\ pc = "GenerateIIC"
    /\ gpc = "returned"
    /\ ~ret.err.isNil
    /\ err' = ret.err
    /\ pc' = "done"
    /\ UNCHANGED <<inFile, outFile, doc, k, fields, examined, parsed, params,
                   gpc, deferred, plainIIC, sha256IIC, IICSignature, ret,
                   sessionOpen, events, signedArgs>>

\* the embedding without RemoveAttr and with attributes appended
Embed_append(d, IIC, sig) ==
    LET i  == FindElement(<<"//", "Invoice">>, d)
        a0 == d.Child[i].Attr
        a2 == Append(a0, [Key |-> <<"IIC">>, Value |-> IIC])
        a4 == Append(a2, [Key |-> <<"IICSignature">>, Value |-> sig])
    IN  [Child    |-> [d.Child EXCEPT ![i].Attr = a4],
         Indented |-> TRUE,
         RootTail |-> << >>]

\* lines 39-46: the attributes of the first Invoice element are replaced,
\* the document is indented and the root's tail cleared.  The element
\* exists: parse found it before GenerateIIC was called.
Embed(d, IIC, sig) ==
    LET i  == FindElement(<<"//", "Invoice">>, d)
        a0 == d.Child[i].Attr
        a1 == RemoveAttr(a0, <<"IIC">>)
        a2 == CreateAttr(a1, <<"IIC">>, IIC)
        a3 == RemoveAttr(a2, <<"IICSignature">>)
        a4 == CreateAttr(a3, <<"IICSignature">>, sig)
    IN  [Child    |-> [d.Child EXCEPT ![i].Attr = a4],
         Indented |-> TRUE,
         RootTail |-> << >>]

\* lines 38-52: embed, then doc.WriteToFile succeeds
W_Save_ok ==
    /\ pc = "GenerateIIC"
    /\ gpc = "returned"
    /\ ret.err.isNil
    /\ doc' = Embed(doc, ret.IIC, ret.IICSignature)
    /\ outFile' = [state |-> "written", doc |-> doc']
    /\ err' = Nil
    /\ pc' = "done"
    /\ UNCHANGED <<inFile, k, fields, examined, parsed, params,
                   gpc, deferred, plainIIC, sha256IIC, IICSignature, ret,
                   sessionOpen, events, signedArgs>>

\* lines 38-52: embed, then doc.WriteToFile fails; the file is untouched if
\* it could not be created and truncated if the write failed later
W_Save_err ==
    /\ pc = "GenerateIIC"
    /\ gpc = "returned"
    /\ ret.err.isNil
    /\ doc' = Embed(doc, ret.IIC, ret.IICSignature)
    /\ outFile' \in {outFile, [state |-> "partial", doc |-> EmptyDoc]}
    /\ err' = WriteError
    /\ pc' = "done"
    /\ UNCHANGED <<inFile, k, fields, examined, parsed, params,
                   gpc, deferred, plainIIC, sha256IIC, IICSignature, ret,
                   sessionOpen, events, signedArgs>>

-----------------------------------------------------------------------------
(* GenerateIIC *)

Ev(op, ok) == [op |-> op, ok |-> ok]

EmptyRet(e) == [IIC |-> << >>, IICSignature |-> << >>, err |-> e]

\* the format without the delimiters
PlainFormat_noDelimiter == <<"%v", "%v", "%v", "%v", "%v", "%v", "%v">>

\* line 65
PlainFormat ==
    <<"%v", "|", "%v", "|", "%v", "|", "%v", "|", "%v", "|", "%v", "|", "%v">>

\* the arguments with TIN and IssueDateTime exchanged
PlainArgs_swapped(p) == <<p[2], p[1], p[3], p[4], p[5], p[6], p[7]>>

\* lines 66-72
PlainArgs(p) == <<p[1], p[2], p[3], p[4], p[5], p[6], p[7]>>

\* Finalize deferred before the err check of Initialize
G_Initialize_err_deferFirst ==
    /\ gpc = "Initialize"
    /\ events' = Append(events, Ev("Initialize", FALSE))
    /\ deferred' = <<"Finalize">> \o deferred
    /\ ret' = EmptyRet(SessionInitError)
    /\ gpc' = "return"
    /\ UNCHANGED <<plainIIC, sha256IIC, IICSignature, sessionOpen,
                   signedArgs, params>>
    /\ UNCHANGED wvars

\* lines 58-61: signer.Initialize fails
G_Initialize_err ==
    /\ gpc = "Initialize"
    /\ events' = Append(events, Ev("Initialize", FALSE))
    /\ ret' = EmptyRet(SessionInitError)
    /\ gpc' = "return"
    /\ UNCHANGED <<deferred, plainIIC, sha256IIC, IICSignature, sessionOpen,
                   signedArgs, params>>
    /\ UNCHANGED wvars

\* lines 58-62: signer.Initialize succeeds, Finalize is deferred
G_Initialize_ok ==
    /\ gpc = "Initialize"
    /\ events' = Append(events, Ev("Initialize", TRUE))
    /\ sessionOpen' = TRUE
    /\ deferred' = <<"Finalize">> \o deferred
    /\ gpc' = "Sprintf"
    /\ UNCHANGED <<plainIIC, sha256IIC, IICSignature, ret, signedArgs, params>>
    /\ UNCHANGED wvars

\* lines 64-80: the plain text is built, hasher.Write fails
G_Hash_err ==
    /\ gpc = "Sprintf"
    /\ plainIIC' = Sprintf(PlainFormat, PlainArgs(params))
    /\ ret' = EmptyRet(HashError)
    /\ gpc' = "return"
    /\ UNCHANGED <<deferred, sha256IIC, IICSignature, sessionOpen, events,
                   signedArgs, params>>
    /\ UNCHANGED wvars

\* lines 64-81: the plain text is built and hashed with SHA-256
G_Hash_ok ==
    /\ gpc = "Sprintf"
    /\ plainIIC' = Sprintf(PlainFormat, PlainArgs(params))
    /\ sha256IIC' = Sum("SHA256", plainIIC')
    /\ gpc' = "Sign"
    /\ UNCHANGED <<deferred, IICSignature, ret, sessionOpen, events,
                   signedArgs, params>>
    /\ UNCHANGED wvars

\* the err of SignPKCS1v15 left unchecked: the run goes on with no signature
G_Sign_err_unchecked ==
    /\ gpc = "Sign"
    /\ events' = Append(events, Ev("SignPKCS1v15", FALSE))
    /\ signedArgs' = Append(signedArgs, sha256IIC)
    /\ gpc' = "MD5"
    /\ UNCHANGED <<deferred, plainIIC, sha256IIC, IICSignature, ret,
                   sessionOpen, params>>
    /\ UNCHANGED wvars

\* lines 83-86: signer.SignPKCS1v15 fails
G_Sign_err ==
    /\ gpc = "Sign"
    /\ events' = Append(events, Ev("SignPKCS1v15", FALSE))
    /\ signedArgs' = Append(signedArgs, sha256IIC)
    /\ ret' = EmptyRet(SigningError)
    /\ gpc' = "return"
    /\ UNCHANGED <<deferred, plainIIC, sha256IIC, IICSignature, sessionOpen,
                   params>>
    /\ UNCHANGED wvars

\* lines 83-86: signer.SignPKCS1v15 returns a signature
G_Sign_ok ==
    /\ gpc = "Sign"
    /\ events' = Append(events, Ev("SignPKCS1v15", TRUE))
    /\ signedArgs' = Append(signedArgs, sha256IIC)
    /\ \E sig \in Signatures : IICSignature' = sig
    /\ gpc' = "MD5"
    /\ UNCHANGED <<deferred, plainIIC, sha256IIC, ret, sessionOpen, params>>
    /\ UNCHANGED wvars

\* lines 87-91: hasher.Write of the signature fails
G_MD5_err ==
    /\ gpc = "MD5"
    /\ ret' = EmptyRet(HashError)
    /\ gpc' = "return"
    /\ UNCHANGED <<deferred, plainIIC, sha256IIC, IICSignature, sessionOpen,
                   events, signedArgs, params>>
    /\ UNCHANGED wvars

\* lines 87-94: the signature is hashed with MD5, both results are hex-encoded
G_MD5_ok ==
    /\ gpc = "MD5"
    /\ ret' = [IIC          |-> HexOfSum(Sum("MD5", IICSignature)),
               IICSignature |-> Hex(IICSignature),
               err          |-> Nil]
    /\ gpc' = "return"
    /\ UNCHANGED <<deferred, plainIIC, sha256IIC, IICSignature, sessionOpen,
                   events, signedArgs, params>>
    /\ UNCHANGED wvars

\* a return that does not run the deferred calls
G_return_noDefer ==
    /\ gpc = "return"
    /\ gpc' = "returned"
    /\ UNCHANGED <<events, sessionOpen, deferred, plainIIC, sha256IIC,
                   IICSignature, ret, signedArgs, params>>
    /\ UNCHANGED wvars

\* the function returns: the deferred calls run (line 62), then the caller
\* gets ret
G_return ==
    /\ gpc = "return"
    /\ IF deferred # << >>
       THEN /\ events' = Append(events, Ev(Head(deferred), TRUE))
            /\ sessionOpen' = FALSE
            /\ deferred' = Tail(deferred)
       ELSE UNCHANGED <<events, sessionOpen, deferred>>
    /\ gpc' = "returned"
    /\ UNCHANGED <<plainIIC, sha256IIC, IICSignature, ret, signedArgs, params>>
    /\ UNCHANGED wvars

-----------------------------------------------------------------------------
(* Specifications *)

InitCommon ==
    /\ outFile = NoFile
    /\ doc = EmptyDoc
    /\ k = 1
    /\ fields = << >>
    /\ examined = << >>
    /\ parsed = [val |-> ZeroTuple, err |-> Nil]
    /\ deferred = << >>
    /\ plainIIC = << >>
    /\ sha256IIC = NoDigest
    /\ IICSignature = << >>
    /\ ret = EmptyRet(Nil)
    /\ sessionOpen = FALSE
    /\ events = << >>
    /\ signedArgs = << >>
    /\ err = Nil

\* WriteIIC is called on a file
Init ==
    /\ InitCommon
    /\ pc = "ReadFromFile"
    /\ gpc = "idle"
    /\ inFile \in {NoFile} \cup {[state |-> "written", doc |-> d] : d \in Docs}
    /\ params = ZeroTuple

GenerateIIC ==
    \/ G_Initialize_err
    \/ G_Initialize_ok
    \/ G_Hash_err
    \/ G_Hash_ok
    \/ G_Sign_err
    \/ G_Sign_ok
    \/ G_MD5_err
    \/ G_MD5_ok
    \/ G_return

Next ==
    \/ W_ReadFromFile_err
    \/ W_ReadFromFile_ok
    \/ parse_step
    \/ W_parse_err
    \/ W_call_GenerateIIC
    \/ GenerateIIC
    \/ W_GenerateIIC_err
    \/ W_Save_ok
    \/ W_Save_err

Spec == Init /\ [][Next]_vars

\* GenerateIIC is called directly with a tuple of field values
InitGen ==
    /\ InitCommon
    /\ pc = "none"
    /\ gpc = "Initialize"
    /\ inFile = NoFile
    /\ params \in [1..NumFields -> FieldValues]

NextGen == GenerateIIC

SpecGen == InitGen /\ [][NextGen]_vars

-----------------------------------------------------------------------------
(* Properties *)

Count(op) == Cardinality({i \in DOMAIN events : events[i].op = op})

InitializeOK == Ev("Initialize", TRUE)

Opened == events # << >> /\ events[1] = InitializeOK

\* the plain text has been built
PlainBuilt ==
    \/ gpc \in {"Sign", "MD5"}
    \/ gpc \in {"return", "returned"} /\ ret.err # SessionInitError

\* C1: once GenerateIIC has returned, Finalize has been called exactly once
\* if Initialize succeeded (and not at all otherwise) and no session is left
\* open, whatever the exit path was.
C1_SessionReleased ==
    gpc = "returned" =>
        /\ Count("Finalize") = (IF InitializeOK \in Range(events) THEN 1 ELSE 0)
        /\ ~sessionOpen

C1_Witness ==
    /\ gpc = "returned"
    /\ ret.err = SigningError
    /\ Count("Finalize") = 1
    /\ ~sessionOpen

\* C2: a run of WriteIIC that ends in an error from loading, extraction,
\* session opening, hashing or signing has left the document as it was
\* loaded and the output file unwritten; the document is changed and the
\* output file written only after GenerateIIC returned without error.
C2_NoWriteOnFailure ==
    /\ (pc = "done" /\ ~err.isNil /\ err # WriteError) =>
           /\ outFile = NoFile
           /\ doc \in {EmptyDoc, inFile.doc}
    /\ (outFile # NoFile \/ doc \notin {EmptyDoc, inFile.doc}) =>
           /\ gpc = "returned"
           /\ ret.err.isNil

C2_Witness ==
    /\ pc = "done"
    /\ err = SigningError
    /\ doc = inFile.doc
    /\ outFile = NoFile
    /\ \E i \in DOMAIN doc.Child :
          \E a \in DOMAIN doc.Child[i].Attr :
             doc.Child[i].Attr[a] = [Key |-> <<"IIC">>, Value |-> OldValue]

SellerAbsent ==
    /\ inFile.state = "written"
    /\ \A i \in DOMAIN inFile.doc.Child : inFile.doc.Child[i].Tag # <<"Seller">>

\* C3: when the document has no Seller element, WriteIIC ends with the
\* can't-find-element error of the Seller/IDNum lookup (unless loading
\* failed) and the signer is never touched; no signer call is made in any
\* run in which parse returned an error.
C3_NoSignerWithoutSeller ==
    /\ SellerAbsent =>
          /\ events = << >>
          /\ ~sessionOpen
          /\ (pc = "done" /\ err # ReadError) =>
                /\ err.msg = <<"can't find element ", "//", "Seller">>
                /\ examined = <<[elem |-> <<"//", "Seller">>,
                                 attr |-> <<"IDNum">>]>>
    /\ ~parsed.err.isNil => (events = << >> /\ ~sessionOpen)

C3_Witness ==
    /\ SellerAbsent
    /\ pc = "done"
    /\ err.msg = <<"can't find element ", "//", "Seller">>
    /\ events = << >>
    /\ \E i \in DOMAIN doc.Child :
          /\ doc.Child[i].Tag = <<"Invoice">>
          /\ Len(doc.Child[i].Attr) = 6

\* C4: every error of the extraction names both the node and the attribute
\* of the lookup that failed.
C4_ErrorNamesNodeAndAttribute ==
    ~parsed.err.isNil =>
        LET loc == examined[Len(examined)]
        IN  /\ loc.elem[2] \in Range(parsed.err.msg)
            /\ loc.attr[1] \in Range(parsed.err.msg)

\* C5: GenerateIIC returns either an error with two empty strings or no
\* error with the hex of the MD5 of the one signature and the hex of that
\* signature; a failed call on the signer always ends in an error, and
\* Initialize and SignPKCS1v15 are each called at most once.
C5_NoPartialOutput ==
    gpc = "returned" =>
        /\ Count("Initialize") = 1
        /\ Count("SignPKCS1v15") <= 1
        /\ (\E i \in DOMAIN events : ~events[i].ok) => ~ret.err.isNil
        /\ IF ret.err.isNil
           THEN /\ Ev("SignPKCS1v15", TRUE) \in Range(events)
                /\ ret.IICSignature = Hex(IICSignature)
                /\ Len(ret.IICSignature) = 2 * Len(IICSignature)
                /\ ret.IIC = <<"MD5">> \o Hex(IICSignature)
           ELSE /\ ret.IIC = << >>
                /\ ret.IICSignature = << >>

C5_Witness ==
    /\ gpc = "returned"
    /\ events = <<InitializeOK, Ev("SignPKCS1v15", FALSE), Ev("Finalize", TRUE)>>
    /\ ret = [IIC |-> << >>, IICSignature |-> << >>, err |-> SigningError]

InvoiceAttrOf(d) == d.Child[FindElement(<<"//", "Invoice">>, d)].Attr

Saved == pc = "done" /\ gpc = "returned" /\ ret.err.isNil

\* C6: after the embed-and-save step the Invoice element has exactly one
\* IIC and exactly one IICSignature attribute, holding the values GenerateIIC
\* returned, whatever IIC / IICSignature attributes it had before, and a
\* second application of the step with the same values changes nothing.
C6_EmbedIdempotent ==
    Saved =>
        LET a == InvoiceAttrOf(doc)
            iic == {i \in DOMAIN a : a[i].Key = <<"IIC">>}
            sig == {i \in DOMAIN a : a[i].Key = <<"IICSignature">>}
        IN  /\ Cardinality(iic) = 1
            /\ Cardinality(sig) = 1
            /\ \A i \in iic : a[i].Value = ret.IIC
            /\ \A i \in sig : a[i].Value = ret.IICSignature
            /\ Embed(doc, ret.IIC, ret.IICSignature) = doc

C6_Witness ==
    /\ Saved
    /\ err.isNil
    /\ LET before == InvoiceAttrOf(inFile.doc)
           after  == InvoiceAttrOf(doc)
       IN  /\ before[1] = [Key |-> <<"IIC">>, Value |-> OldValue]
           /\ before[Len(before)] = [Key |-> <<"IICSignature">>,
                                     Value |-> OldValue]
           /\ Len(after) = Len(before)
           /\ after[Len(after)].Value = <<"0", "a">>

\* C7: the plain text is field 1 to field 7 in that order with one "|"
\* between neighbours and nothing else, the values taken as they are; what
\* SignPKCS1v15 is handed is the SHA-256 digest of exactly that text.
C7_PlainText ==
    /\ PlainBuilt =>
          plainIIC = params[1] \o <<"|">> \o params[2] \o <<"|">> \o params[3]
                     \o <<"|">> \o params[4] \o <<"|">> \o params[5]
                     \o <<"|">> \o params[6] \o <<"|">> \o params[7]
    /\ \A i \in DOMAIN signedArgs :
          signedArgs[i] = [hash |-> "SHA256", data |-> plainIIC]
    /\ Len(signedArgs) = Count("SignPKCS1v15")

C7_Witness ==
    /\ gpc = "MD5"
    /\ params = << <<"a">>, <<"a", "a">>, <<"a", "|", "a">>, <<"a">>,
                   <<"a">>, <<"a", "a">>, <<"a">> >>
    /\ plainIIC = <<"a", "|", "a", "a", "|", "a", "|", "a", "|", "a", "|",
                    "a", "|", "a", "a", "|", "a">>
    /\ signedArgs = <<[hash |-> "SHA256", data |-> plainIIC]>>

Swap(p, i, j) ==
    [n \in 1..NumFields |-> IF n = i THEN p[j] ELSE IF n = j THEN p[i] ELSE p[n]]

PlainOf(p) == Sprintf(PlainFormat, PlainArgs(p))

\* C8 as stated: exchanging any two of the seven fields changes the plain
\* text.
C8_AnySwapChangesPlainText ==
    PlainBuilt =>
        \A i, j \in 1..NumFields :
            i # j => PlainOf(Swap(params, i, j)) # plainIIC

\* C8 amended: exchanging two fields whose values differ and contain no "|"
\* changes the plain text.
C8_SwapOfDistinctPipeFree ==
    PlainBuilt =>
        \A i, j \in 1..NumFields :
            (/\ params[i] # params[j]
             /\ "|" \notin Range(params[i])
             /\ "|" \notin Range(params[j]))
            => PlainOf(Swap(params, i, j)) # plainIIC

C8_Witness ==
    /\ gpc = "Sign"
    /\ params = << <<"a">>, <<"a", "a">>, <<"a", "|", "a">>, <<"a">>,
                   <<"a">>, <<"a">>, <<"a">> >>
    /\ PlainOf(Swap(params, 1, 2)) =
          <<"a", "a", "|", "a", "|", "a", "|", "a", "|", "a", "|", "a", "|",
            "a", "|", "a">>
    /\ PlainOf(Swap(params, 1, 2)) # plainIIC

\* C9: the calls on the signer are Initialize first, SignPKCS1v15 second and
\* only after a successful Initialize, Finalize last and only after a
\* successful Initialize; a successful GenerateIIC has signed exactly once;
\* a failed Initialize is the only call of its run.
C9_SignerOrder ==
    /\ \A i \in DOMAIN events :
          /\ events[i].op \in {"Initialize", "SignPKCS1v15", "Finalize"}
          /\ events[i].op = "Initialize" => i = 1
          /\ events[i].op = "SignPKCS1v15" => (i = 2 /\ Opened)
          /\ events[i].op = "Finalize" => (i = Len(events) /\ i > 1 /\ Opened)
    /\ Count("SignPKCS1v15") <= 1
    /\ (gpc = "returned" /\ ret.err.isNil) => Count("SignPKCS1v15") = 1
    /\ (events # << >> /\ ~events[1].ok) => Len(events) = 1
    /\ sessionOpen <=> (Opened /\ Count("Finalize") = 0)

C9_Witness ==
    events = <<InitializeOK, Ev("SignPKCS1v15", TRUE), Ev("Finalize", TRUE)>>

ExpectedOrder == <<
    <<"Seller", "IDNum">>, <<"Invoice", "IssueDateTime">>,
    <<"Invoice", "InvOrdNum">>, <<"Invoice", "BusinUnitCode">>,
    <<"Invoice", "TCRCode">>, <<"Invoice", "SoftCode">>,
    <<"Invoice", "TotPrice">> >>

HasElement(d, tag) == \E e \in DOMAIN d.Child : d.Child[e].Tag = <<tag>>

\* the values the document has for the attribute of the element
ValuesOf(d, tag, attr) ==
    UNION {{d.Child[e].Attr[a].Value :
               a \in {a \in DOMAIN d.Child[e].Attr :
                         d.Child[e].Attr[a].Key = <<attr>>}} :
           e \in {e \in DOMAIN d.Child : d.Child[e].Tag = <<tag>>}}

Missing(d) ==
    {i \in 1..NumFields : ValuesOf(d, ExpectedOrder[i][1], ExpectedOrder[i][2]) = {}}

ParseReturned == pc \in {"parsed", "GenerateIIC"} \/ (pc = "done" /\ err # ReadError)

\* C10: parse looks the seven locators up in the fixed order and stops at
\* the first that is missing: it has examined exactly the locators up to the
\* earliest missing one, returns that one's error with the all-empty tuple,
\* and returns the seven values in order, without error, exactly when none
\* is missing.
C10_ParseShortCircuit ==
    ParseReturned =>
        LET d == inFile.doc
            missing == Missing(d)
        IN  /\ parsed.err.isNil <=> missing = {}
            /\ IF missing = {}
               THEN /\ Len(examined) = NumFields
                    /\ \A i \in 1..NumFields :
                          /\ examined[i].elem = <<"//", ExpectedOrder[i][1]>>
                          /\ examined[i].attr = <<ExpectedOrder[i][2]>>
                          /\ ValuesOf(d, ExpectedOrder[i][1],
                                      ExpectedOrder[i][2]) = {parsed.val[i]}
               ELSE LET m == CHOOSE i \in missing : \A j \in missing : i <= j
                    IN  /\ Len(examined) = m
                        /\ \A i \in 1..m :
                              /\ examined[i].elem = <<"//", ExpectedOrder[i][1]>>
                              /\ examined[i].attr = <<ExpectedOrder[i][2]>>
                        /\ parsed.val = [i \in 1..7 |-> << >>]
                        /\ parsed.err.msg =
                              IF HasElement(d, ExpectedOrder[m][1])
                              THEN <<"can't find attribute ", ExpectedOrder[m][2]>>
                              ELSE <<"can't find element ", "//",
                                     ExpectedOrder[m][1]>>

C10_Witness ==
    /\ pc = "parsed"
    /\ Missing(inFile.doc) = {3, 5}
    /\ Len(examined) = 3
    /\ parsed.val = [i \in 1..7 |-> << >>]
    /\ parsed.err.msg = <<"can't find attribute ", "InvOrdNum">>

====
